---- MODULE Spec2Model ----
(***************************************************************************)
(* Household specialization model (HouseholdSpecializationModel.py):       *)
(* utility evaluation, discrete and continuous solving, the wage sweep,    *)
(* the log-log regression and the calibration, for both classes            *)
(*   "A" = HouseholdSpecializationModelClass                               *)
(*   "B" = NewHouseholdSpecializationModelClass.                           *)
(*                                                                         *)
(* Numbers.  The program computes in binary floating point.  Here          *)
(*   - hours are integers counted in ticks of 1e-7 hour (TicksPerHour),    *)
(*   - wages are integers counted in 1/WScale,                             *)
(*   - alpha, sigma, omega, rho, epsilon, nu, eta are counted in 1/PScale, *)
(*   - a real value that goes through powers (C, H, Q, utility,            *)
(*     disutility) is a signed logarithm <<sg, l>>: sg its sign and l the  *)
(*     natural logarithm of its magnitude times LS, rounded down, so that  *)
(*     x**y is a multiplication and the 1e-8 and 1e-7 floors and the       *)
(*     1e8 they produce are all in range,                                  *)
(*   - regression coefficients are counted in 1/BScale.                    *)
(***************************************************************************)
EXTENDS Integers, Sequences, FiniteSets, TLC

(***************************************************************************)
(* Units                                                                   *)
(***************************************************************************)
LS == 10^6
TicksPerHour == 10^7
WScale == 3 * 10
PScale == 10^3
BScale == 10^4

(***************************************************************************)
(* Fixed-point helpers                                                     *)
(***************************************************************************)
Abs(a) == IF a < 0 THEN -a ELSE a

Sgn(a) == IF a < 0 THEN -1 ELSE IF a = 0 THEN 0 ELSE 1

Pow2(k) == 2^k

\* floor(a*b/c) for a >= 0, 0 <= b, c > 0, computed without a*b
MulDivNat(a, b, c) == (a \div c) * b + ((a % c) * b) \div c

\* a*b/c with the sign of a*b, magnitude rounded down
MulDiv(a, b, c) == Sgn(a) * Sgn(b) * MulDivNat(Abs(a), Abs(b), c)

\* the first n decimal digits of r/b, as an integer (0 <= r < b)
RECURSIVE FracDigits(_, _, _)
FracDigits(r, b, n) ==
    IF n = 0 THEN 0
    ELSE ((r * 10) \div b) * 10^(n - 1) + FracDigits((r * 10) % b, b, n - 1)

\* floor(LS*a/b) for a >= 0, b > 0
FixDivNat(a, b) == (a \div b) * LS + FracDigits(a % b, b, 6)

FixDiv(a, b) == Sgn(a) * FixDivNat(Abs(a), b)

\* x*y/LS for |x|, |y| <= LS, by halves of three digits
Mul6(x, y) ==
    LET a == Abs(x)
        b == Abs(y)
        a1 == a \div 1000
        a0 == a % 1000
        b1 == b \div 1000
        b0 == b % 1000
    IN  Sgn(x) * Sgn(y) * (a1 * b1 + ((a1 * b0 + a0 * b1) * 1000 + a0 * b0) \div LS)

\* bring p/q into [3/4, 3/2) by doubling; k counts the powers of two taken out
RECURSIVE LnReduce(_, _, _)
LnReduce(p, q, k) ==
    IF p >= q + q \div 2 THEN LnReduce(p, 2 * q, k + 1)
    ELSE IF p < q - q \div 4 THEN LnReduce(2 * p, q, k - 1)
    ELSE <<p, q, k>>

RECURSIVE LnShrink(_, _)
LnShrink(p, q) ==
    IF p + q > 10^8 THEN LnShrink(p \div 2, q \div 2) ELSE <<p, q>>

\* 2*(z + z^3/3 + z^5/5 + ...) from the term z^n (n odd), z2 = z*z
RECURSIVE AtanhSeries(_, _, _)
AtanhSeries(zn, z2, n) ==
    IF n > 11 \/ zn = 0 THEN 0
    ELSE 2 * (zn \div n) + AtanhSeries(Mul6(zn, z2), z2, n + 2)

\* ln 2 = 0.693147..., times LS
LN2 == 693147 * (LS \div 10^6)

\* ln(p/q)*LS for integers p, q > 0
Ln(p, q) ==
    LET r == LnReduce(p, q, 0)
        s == LnShrink(r[1], r[2])
        z == FixDiv(s[1] - s[2], s[1] + s[2])
    IN  r[3] * LN2 + AtanhSeries(z, Mul6(z, z), 1)

\* sum of (-f)^n/n! from the term t = (-f)^n/n!
RECURSIVE ExpSeries(_, _, _)
ExpSeries(t, f, n) ==
    IF t = 0 \/ n > 14 THEN 0
    ELSE t + ExpSeries(-Sgn(t) * (Mul6(Abs(t), f) \div (n + 1)), f, n + 1)

\* exp(-x/LS)*LS for x >= 0
ExpNeg(x) ==
    LET k == x \div LN2
        f == x % LN2
    IN  IF k > 30 THEN 0 ELSE ExpSeries(LS, f, 0) \div Pow2(k)

(***************************************************************************)
(* Signed logarithms: <<sg, l>> is sg * exp(l/LS); <<0, 0>> is zero and    *)
(* NegInf is numpy's -inf.                                                 *)
(***************************************************************************)
Zero == <<0, 0>>

NegInf == <<-2, 0>>

\* the rational n/d (d # 0)
Real(n, d) ==
    IF n = 0 THEN Zero ELSE <<Sgn(n) * Sgn(d), Ln(Abs(n), Abs(d))>>

RNeg(a) == <<-a[1], a[2]>>

RMul(a, b) ==
    IF a[1] = 0 \/ b[1] = 0 THEN Zero ELSE <<a[1] * b[1], a[2] + b[2]>>

\* a ** (n/d) for a >= 0; numpy gives 0**0 = 1 and 0**y = 0 for y > 0
RPow(a, n, d) ==
    IF a[1] = 0 THEN (IF n = 0 THEN <<1, 0>> ELSE Zero)
    ELSE <<1, MulDiv(a[2], n * Sgn(d), Abs(d))>>

\* ln(exp(la) + exp(lb)) for la >= lb
AddMag(la, lb) == la + Ln(LS + ExpNeg(la - lb), LS)

\* exp(la) - exp(lb) for la >= lb, as a signed logarithm of sign sg
SubMag(sg, la, lb) ==
    LET e == ExpNeg(la - lb)
    IN  IF e >= LS THEN Zero ELSE <<sg, la + Ln(LS - e, LS)>>

RAdd(a, b) ==
    IF a[1] = 0 THEN b
    ELSE IF b[1] = 0 THEN a
    ELSE IF a[1] = b[1]
         THEN <<a[1], IF a[2] >= b[2] THEN AddMag(a[2], b[2]) ELSE AddMag(b[2], a[2])>>
    ELSE IF a[2] >= b[2] THEN SubMag(a[1], a[2], b[2])
    ELSE SubMag(b[1], b[2], a[2])

RSub(a, b) == RAdd(a, RNeg(b))

\* a < b; NegInf is below every number
RLess(a, b) ==
    IF a[1] # b[1] THEN a[1] < b[1]
    ELSE IF a[1] = 1 THEN a[2] < b[2]
    ELSE IF a[1] = -1 THEN a[2] > b[2]
    ELSE FALSE

\* np.fmax and np.minimum
RMax(a, b) == IF RLess(a, b) THEN b ELSE a

RMin(a, b) == IF RLess(b, a) THEN b ELSE a

\* hours, given in ticks
Hours(t) == Real(t, TicksPerHour)

(***************************************************************************)
(* The two classes and their parameters (__init__)                         *)
(***************************************************************************)
Inst == {"A", "B"}

\* points of par.wF_vec = np.linspace(0.8,1.2,5); the model sweeps NVec points
NVec == 2

\* points per axis of the grid np.linspace(0,24,49); the model takes GridN
GridN == 3

DayHours == 24

\* np.linspace(0.8, 1.2, NVec), in 1/WScale
wF_vec0 == [i \in 1..NVec |-> 24 + (12 * (i - 1)) \div (NVec - 1)]

\* self.par after __init__ of class v
ParInit(v) ==
    LET common == [rho |-> 2000, nu |-> 1, epsilon |-> 1000, omega |-> 500,
                   alpha |-> 500, sigma |-> 1000, wM |-> 30, wF |-> 30,
                   wF_vec |-> wF_vec0,
                   beta0_target |-> 4000, beta1_target |-> -1000]
    IN  IF v = "A" THEN common
        ELSE [f \in DOMAIN common \cup {"eta"} |->
                 IF f = "eta" THEN 2 ELSE common[f]]

\* a float that is a number, in 1/BScale, or not a number
Num(b) == [nan |-> FALSE, val |-> b]

NaN == [nan |-> TRUE, val |-> 0]

\* self.sol after __init__
SolInit ==
    [LM_vec |-> [i \in 1..NVec |-> 0], HM_vec |-> [i \in 1..NVec |-> 0],
     LF_vec |-> [i \in 1..NVec |-> 0], HF_vec |-> [i \in 1..NVec |-> 0],
     beta0 |-> NaN, beta1 |-> NaN]

(***************************************************************************)
(* calc_utility                                                            *)
(***************************************************************************)
\* 1e-07 hour, in ticks
HFloor == 1

\* 1e-8
QFloor == Real(1, 10^8)

Param(x) == Real(x, PScale)

\* b. home production: <<H, HM, HF>> with HM, HF as bound after the branch
HomeProduction(p, HM, HF) ==
    IF p.sigma = 0 THEN <<RMin(Hours(HM), Hours(HF)), HM, HF>>
    ELSE IF p.sigma = PScale
    THEN <<RMul(RPow(Hours(HM), PScale - p.alpha, PScale),
                RPow(Hours(HF), p.alpha, PScale)), HM, HF>>
    ELSE LET HM1 == IF HM > HFloor THEN HM ELSE HFloor
             HF1 == IF HF > HFloor THEN HF ELSE HFloor
             inside == RAdd(RMul(Param(PScale - p.alpha),
                                 RPow(Hours(HM1), p.sigma - PScale, p.sigma)),
                            RMul(Param(p.alpha),
                                 RPow(Hours(HF1), p.sigma - PScale, p.sigma)))
         IN  <<RPow(inside, p.sigma, p.sigma - PScale), HM1, HF1>>

\* a. consumption of market goods
Consumption(p, LM, LF) ==
    RAdd(RMul(Real(p.wM, WScale), Hours(LM)), RMul(Real(p.wF, WScale), Hours(LF)))

\* c. total consumption utility
Utility(p, C, H) ==
    LET Q == RMul(RPow(C, p.omega, PScale), RPow(H, PScale - p.omega, PScale))
    IN  RMul(RPow(RMax(Q, QFloor), PScale - p.rho, PScale),
             Real(PScale, PScale - p.rho))

\* T**epsilon_/epsilon_ with epsilon_ = 1+1/epsilon, T in ticks
WorkPower(p, T) ==
    RMul(RPow(Hours(T), p.epsilon + PScale, p.epsilon),
         Real(p.epsilon, p.epsilon + PScale))

\* a faulty disutility: class B leaves the scale eta out
Disutility_Unscaled(v, p, TM, TF) ==
    IF v = "A" THEN RMul(Param(p.nu), RAdd(WorkPower(p, TM), WorkPower(p, TF)))
    ELSE RAdd(RMul(Param(p.nu), WorkPower(p, TM)), WorkPower(p, TF))

\* d. disutility of work
Disutility(v, p, TM, TF) ==
    IF v = "A" THEN RMul(Param(p.nu), RAdd(WorkPower(p, TM), WorkPower(p, TF)))
    ELSE RAdd(RMul(Param(p.nu), WorkPower(p, TM)),
              RMul(Param(p.eta), WorkPower(p, TF)))

\* H, HM, HF as bound after step b, and TM = LM+HM, TF = LF+HF of step d
TotalHours(LM, LF, hp) ==
    [H |-> hp[1], HM |-> hp[2], HF |-> hp[3], TM |-> LM + hp[2], TF |-> LF + hp[3]]

\* the local variables H, HM, HF, TM, TF of calc_utility at its return statement
calc_utility_locals(p, LM, HM, LF, HF) ==
    TotalHours(LM, LF, HomeProduction(p, HM, HF))

\* return utility - disutility
calc_utility_return(v, p, C, l) ==
    RSub(Utility(p, C, l.H), Disutility(v, p, l.TM, l.TF))

calc_utility(v, p, LM, HM, LF, HF) ==
    calc_utility_return(v, p, Consumption(p, LM, LF),
                        calc_utility_locals(p, LM, HM, LF, HF))

(***************************************************************************)
(* solve_discrete                                                          *)
(***************************************************************************)
\* x = np.linspace(0,24,GridN), in ticks, indexed from 0
GridX(i) == ((DayHours * TicksPerHour) \div (GridN - 1)) * i

GridSize == GridN * GridN * GridN * GridN

\* np.meshgrid(x,x,x,x) with the default 'xy' indexing, then ravel(): in the
\* flat index j the second argument (HM) is the slowest axis, then LM, LF, HF
GridLM(j) == GridX((j \div (GridN * GridN)) % GridN)

GridHM(j) == GridX(j \div (GridN * GridN * GridN))

GridLF(j) == GridX((j \div GridN) % GridN)

GridHF(j) == GridX(j % GridN)

\* a faulty mask: the budget of the female member is left out
Infeasible_MaleOnly(LM, HM, LF, HF) == LM + HM > DayHours * TicksPerHour

\* c. I = (LM+HM > 24) | (LF+HF > 24)
Infeasible(LM, HM, LF, HF) ==
    \/ LM + HM > DayHours * TicksPerHour
    \/ LF + HF > DayHours * TicksPerHour

\* u after u[I] = -np.inf
MaskedUtility(v, p, j) ==
    IF Infeasible(GridLM(j), GridHM(j), GridLF(j), GridHF(j)) THEN NegInf
    ELSE calc_utility(v, p, GridLM(j), GridHM(j), GridLF(j), GridHF(j))

\* np.argmax over u[lo..hi]: <<j, u[j]>> for the first index j of the largest
\* value (by halves: the left half wins a tie)
RECURSIVE ArgmaxRange(_, _, _, _)
ArgmaxRange(v, p, lo, hi) ==
    IF lo = hi THEN <<lo, MaskedUtility(v, p, lo)>>
    ELSE LET mid == (lo + hi) \div 2
             l == ArgmaxRange(v, p, lo, mid)
             r == ArgmaxRange(v, p, mid + 1, hi)
         IN  IF RLess(l[2], r[2]) THEN r ELSE l

Argmax(v, p) == ArgmaxRange(v, p, 0, GridSize - 1)[1]

\* the namespace opt that solve_discrete returns
GridPoint(j) ==
    [LM |-> GridLM(j), HM |-> GridHM(j), LF |-> GridLF(j), HF |-> GridHF(j)]

solve_discrete_eval(v, p) == GridPoint(Argmax(v, p))

\* what the callers of the model set par.alpha, par.sigma and par.nu to before
\* solving: the three branches of sigma, and work without disutility
Settings == {<<500, 1000, 1>>, <<500, 0, 1>>, <<250, 500, 1>>, <<500, 1000, 0>>}

\* trial vectors the model lets Nelder-Mead pass to est: x0 first
x0(v) == IF v = "A" THEN <<500, 100>> ELSE <<100>>

TrialPoints(v) == IF v = "A" THEN {x0(v), <<525, 100>>} ELSE {x0(v), <<105>>}

\* a faulty est of class B: the trial value is written into alpha as well
SetTrial_Both(v, p, x) ==
    IF v = "A" THEN [p EXCEPT !.alpha = x[1], !.sigma = x[2]]
    ELSE [p EXCEPT !.alpha = x[1], !.sigma = x[1]]

\* est: par.alpha = x[0]; par.sigma = x[1] (class A), par.sigma = x[0] (class B)
SetTrial(v, p, x) ==
    IF v = "A" THEN [p EXCEPT !.alpha = x[1], !.sigma = x[2]]
    ELSE [p EXCEPT !.sigma = x[1]]

WithSetting(p, st) == [p EXCEPT !.alpha = st[1], !.sigma = st[2], !.nu = st[3]]

\* the values par takes where the model calls solve_discrete: a setting (with
\* eta as set up, or eta = nu), then a wage
ParValues(v) ==
    LET base == {WithSetting(ParInit(v), st) : st \in Settings}
        wage == {[p EXCEPT !.wF = w] : p \in base,
                     w \in {ParInit(v).wF} \cup {wF_vec0[i] : i \in 1..NVec}}
    IN  IF v = "A" THEN wage ELSE wage \cup {[p EXCEPT !.eta = p.nu] : p \in wage}

\* solve_discrete is a function of (class, par): its values, computed once
DiscreteTable ==
    UNION {{<<v, p, solve_discrete_eval(v, p)>> : p \in ParValues(v)} : v \in Inst}

Lookup(T, v, p) ==
    IF T = {} THEN solve_discrete_eval(v, p) ELSE (CHOOSE t \in T : TRUE)[3]

solve_discrete(v, p) == Lookup({t \in DiscreteTable : t[1] = v /\ t[2] = p}, v, p)

(***************************************************************************)
(* solve_cont: scipy.optimize.minimize is library code.  SLSQP returns an  *)
(* approximate minimiser of the objective within the bounds and the        *)
(* constraints, to the accuracy of its tolerance.  The model finds the     *)
(* minimiser by a direct search from the initial guess on a lattice of     *)
(* hours; a call returns the point found, or a neighbour of it whose       *)
(* objective is within the tolerance.  Which of these a call returns is    *)
(* the library's choice, the same for the same arguments (objective,       *)
(* initial guess, method, bounds, constraints, tol): `memo` keeps it.      *)
(* The last step of the search is 1/64 hour and the arithmetic resolves    *)
(* the objective to about 1e-6 of its value, so the point found is within  *)
(* a few hundredths of an hour of the minimiser.                           *)
(***************************************************************************)
H1 == TicksPerHour

\* initial_guess = [4]*4
initial_guess == <<4 * H1, 4 * H1, 4 * H1, 4 * H1>>

\* bounds = [(0,24)]*4 and the two constraints 24 - x[0] - x[1] >= 0,
\* 24 - x[2] - x[3] >= 0
Admissible(x) ==
    /\ \A i \in 1..4 : x[i] >= 0 /\ x[i] <= DayHours * TicksPerHour
    /\ DayHours * TicksPerHour - x[1] - x[2] >= 0
    /\ DayHours * TicksPerHour - x[3] - x[4] >= 0

\* lambda x: -self.calc_utility(x[0],x[1],x[2],x[3])
Minimand(v, p, x) == RNeg(calc_utility(v, p, x[1], x[2], x[3], x[4]))

\* directions of the search: one coordinate, or the two coordinates that a
\* term of the problem ties together (the hours of one member, the hours at
\* home, the hours at work)
SearchDirs ==
    << <<1, 0, 0, 0>>, <<-1, 0, 0, 0>>, <<0, 1, 0, 0>>, <<0, -1, 0, 0>>,
       <<0, 0, 1, 0>>, <<0, 0, -1, 0>>, <<0, 0, 0, 1>>, <<0, 0, 0, -1>>,
       <<1, -1, 0, 0>>, <<-1, 1, 0, 0>>, <<0, 0, 1, -1>>, <<0, 0, -1, 1>>,
       <<0, 1, 0, 1>>, <<0, -1, 0, -1>>, <<1, 0, -1, 0>>, <<-1, 0, 1, 0>> >>

\* the first and the last step of the search, in ticks: 4 hours, 1/64 hour
StepFirst == 4 * H1

StepLast == H1 \div 64

Move(x, d, h) == <<x[1] + h * d[1], x[2] + h * d[2], x[3] + h * d[3], x[4] + h * d[4]>>

\* the element of a set of one element
Only(S) == CHOOSE r \in S : TRUE

\* above every number: the value of the search at a point that is not admissible
PosInf == <<2, 0>>

\* <<y, f(y)>> for the point y
Probe(v, p, y) == <<y, IF Admissible(y) THEN Minimand(v, p, y) ELSE PosInf>>

\* the first of the probes c with the least value
Least(c) ==
    c[CHOOSE k \in DOMAIN c :
          /\ \A j \in DOMAIN c : ~RLess(c[j][2], c[k][2])
          /\ \A j \in 1..(k - 1) : RLess(c[k][2], c[j][2])]

\* one round of the search at s = <<x, f(x), h>>, h the step: the best of the
\* neighbours of x along SearchDirs
Round(v, p, s) ==
    Only({Least(c) :
            c \in {[k \in DOMAIN SearchDirs |-> Probe(v, p, Move(s[1], SearchDirs[k], s[3]))]}})

\* the search moves to the neighbour t when it is better; else it halves
\* the step, and stops (step 0) below StepLast
Advance(s, t) ==
    IF RLess(t[2], s[2]) THEN <<t[1], t[2], s[3]>>
    ELSE <<s[1], s[2], IF s[3] \div 2 >= StepLast THEN s[3] \div 2 ELSE 0>>

SearchStates == (Int \X Int \X Int \X Int) \X (Int \X Int) \X Int

\* <<x, f(x), 0>> for the minimiser x the search finds from the initial guess
Minimiser(v, p) ==
    LET Descend[s \in SearchStates] ==
            IF s[3] = 0 THEN s ELSE Descend[Only({Advance(s, t) : t \in {Round(v, p, s)}})]
    IN  Descend[<<initial_guess, Minimand(v, p, initial_guess), StepFirst>>]

\* the accuracy SLSQP works to: tol=10e-08 in class A; class B passes no tol
\* and SLSQP takes its default, 1e-06
Ftol(v) == IF v = "A" THEN Real(1, 10000000) ELSE Real(1, 1000000)

\* where SLSQP may stop: the point m found and the points y one last step
\* from it with f(y) <= f(m) + tol
Stops(v, p, m) ==
    {m[1]} \cup
        {y \in {Move(m[1], SearchDirs[k], StepLast) : k \in DOMAIN SearchDirs} :
            Admissible(y) /\ ~RLess(RAdd(m[2], Ftol(v)), Minimand(v, p, y))}

solve_cont_eval(v, p) == Only({Stops(v, p, m) : m \in {Minimiser(v, p)}})

\* the values par takes where the model calls solve_cont: those of
\* solve_discrete, and the trials of est at the wages of a sweep
ContParValues(v) ==
    ParValues(v) \cup
        {SetTrial(v, [WithSetting(ParInit(v), st) EXCEPT !.wF = wF_vec0[i]], x) :
            st \in Settings, i \in 1..NVec, x \in TrialPoints(v)}

\* the points solve_cont may return are a function of (class, par): computed once
ContTable ==
    UNION {{<<v, p, solve_cont_eval(v, p)>> : p \in ContParValues(v)} : v \in Inst}

LookupStops(T, v, p) ==
    IF T = {} THEN solve_cont_eval(v, p) ELSE (CHOOSE t \in T : TRUE)[3]

\* res.x values SLSQP may return in solve_cont of class v under p
SolverOutcomes(v, p) == LookupStops({t \in ContTable : t[1] = v /\ t[2] = p}, v, p)

\* the function x -> -calc_utility(x[0],x[1],x[2],x[3]) of class v under p:
\* the parameters calc_utility reads, with the scale of TM and that of TF
Objective(v, p) ==
    [wM |-> p.wM, wF |-> p.wF, alpha |-> p.alpha, sigma |-> p.sigma,
     omega |-> p.omega, rho |-> p.rho, epsilon |-> p.epsilon,
     scaleM |-> p.nu, scaleF |-> IF v = "A" THEN p.nu ELSE p.eta]

\* tol=10e-08 in class A, no tol argument in class B
Tol(v) == IF v = "A" THEN "1e-07" ELSE "None"

\* the arguments of optimize.minimize in solve_cont
MinimizeCall(v, p) ==
    [fun |-> Objective(v, p), x0 |-> initial_guess, method |-> "SLSQP",
     bounds |-> <<0, DayHours>>, constraints |-> <<"24-x[0]-x[1]", "24-x[2]-x[3]">>,
     tol |-> Tol(v)]

\* res.x, given what the optimizer returns for each call
solve_cont(v, p, oracle) == oracle[MinimizeCall(v, p)]

\* a call of optimize.minimize with the points it may return
Request(v, p) == <<MinimizeCall(v, p), SolverOutcomes(v, p)>>

\* the oracles that extend m to the calls of reqs
Extensions(m, reqs) ==
    LET new == {r \in reqs : r[1] \notin DOMAIN m}
        keys == {r[1] : r \in new}
    IN  {[k \in DOMAIN m \cup keys |-> IF k \in DOMAIN m THEN m[k] ELSE f[k]] :
            f \in {g \in [keys -> UNION {r[2] : r \in new}] :
                      \A r \in new : g[r[1]] \in r[2]}}

(***************************************************************************)
(* run_regression                                                          *)
(***************************************************************************)
\* np.log(a/b) in 1/BScale for a, b > 0
LogRatio(a, b) == LET l == Ln(a, b) IN Sgn(l) * (Abs(l) \div (LS \div BScale))

RECURSIVE SumTo(_, _)
SumTo(f, n) == IF n = 0 THEN 0 ELSE f[n] + SumTo(f, n - 1)

\* a/b in 1/BScale, for b > 0
Quotient(a, b) ==
    Sgn(a) * ((Abs(a) \div b) * BScale + FracDigits(Abs(a) % b, b, 4))

\* the least-squares line through the points (x[i], y[i]), i = 1..n, from the
\* sums of x, y, x*x and x*y: <<intercept, slope>> (the x[i] are distinct)
LeastSquares(n, Sx, Sy, Sxx, Sxy) ==
    LET beta1 == Quotient(n * Sxy - Sx * Sy, n * Sxx - Sx * Sx)
        b0n == Sy - MulDiv(beta1, Sx, BScale)
    IN  <<Num(Sgn(b0n) * (Abs(b0n) \div n)), Num(beta1)>>

Lstsq(n, x, y) ==
    LeastSquares(n, SumTo(x, n), SumTo(y, n),
                 SumTo([i \in 1..n |-> x[i] * x[i]], n),
                 SumTo([i \in 1..n |-> x[i] * y[i]], n))

\* x = np.log(par.wF_vec/par.wM); y = np.log(sol.HF_vec/sol.HM_vec);
\* <<beta0, beta1>> = np.linalg.lstsq(A,y)[0] with A = [1 x].
\* A zero in HM_vec or HF_vec makes y, and with it both coefficients, not finite.
run_regression(p, s) ==
    IF \E i \in 1..Len(p.wF_vec) : s.HF_vec[i] = 0 \/ s.HM_vec[i] = 0
    THEN <<NaN, NaN>>
    ELSE Lstsq(Len(p.wF_vec),
               [i \in 1..Len(p.wF_vec) |-> LogRatio(p.wF_vec[i], p.wM)],
               [i \in 1..Len(p.wF_vec) |-> LogRatio(s.HF_vec[i], s.HM_vec[i])])

\* (par.beta0_target - sol.beta0)**2 + (par.beta1_target - sol.beta1)**2
Objective_est(p, s) ==
    IF s.beta0.nan \/ s.beta1.nan THEN NaN
    ELSE LET d0 == p.beta0_target - s.beta0.val
             d1 == p.beta1_target - s.beta1.val
         IN  Num(MulDiv(d0, d0, BScale) + MulDiv(d1, d1, BScale))

(***************************************************************************)
(* The program as a state machine.  One caller drives the objects in objs  *)
(* (one object, or one of each class side by side), one call at a time.    *)
(***************************************************************************)
VARIABLES
    objs,      \* the objects the caller drives
    par,       \* par[v]: self.par of the object of class v
    sol,       \* sol[v]: self.sol
    pc,        \* where the running call is: "idle" between calls
    it,        \* iterations of the loop of solve_wF_vec done so far
    discrete,  \* the argument discrete of the running solve_wF_vec
    res,       \* res[v]: the local res of solve_wF_vec
    memo,      \* what optimize.minimize (SLSQP) has returned, by call
    ret,       \* ret[v]: the call the caller made last and what it returned
    frames,    \* frames[v]: the calls of calc_utility the caller has made
    xcur,      \* the trial vector x of the running est
    trials,    \* the calls of est made by the running estimate: [x, f]
    fresh,     \* indices of SolutionVectors written since solve_wF_vec was entered
    ops        \* calls the caller has made

vars ==
    <<objs, par, sol, pc, it, discrete, res, memo, ret, frames, xcur, trials, fresh, ops>>

\* calls the caller makes
MaxOps == 2

\* calls of est one estimate makes
MaxTrials == 3

\* a value together with the operation that produced it
Result(op, val) == [op |-> op, val |-> val]

None == Result("none", 0)

\* arguments (LM, HM, LF, HF) the caller passes to calc_utility, in ticks
Choices == {<<4 * H1, 4 * H1, 4 * H1, 4 * H1>>, <<4 * H1, 0, 2 * H1, 0>>}

InitWith(os, st, eta) ==
    /\ objs = os
    /\ par = [v \in Inst |->
                 IF v \in os
                 THEN (IF v = "B" THEN [WithSetting(ParInit(v), st) EXCEPT !.eta = eta]
                       ELSE WithSetting(ParInit(v), st))
                 ELSE ParInit(v)]
    /\ sol = [v \in Inst |-> SolInit]
    /\ pc = "idle"
    /\ it = 0
    /\ discrete = FALSE
    /\ res = [v \in Inst |-> None]
    /\ memo = <<>>
    /\ ret = [v \in Inst |-> None]
    /\ frames = [v \in Inst |-> <<>>]
    /\ xcur = <<>>
    /\ trials = <<>>
    /\ fresh = {}
    /\ ops = 0

\* one object of either class, constructed and set up
Init == \E v \in Inst, st \in Settings : InitWith({v}, st, ParInit("B").eta)

\* one object of each class, set up alike, with eta = nu
InitPair == \E st \in Settings : InitWith(Inst, st, st[3])

\* f on the driven objects, g elsewhere
OnObjs(f(_), g) == [v \in Inst |-> IF v \in objs THEN f(v) ELSE g[v]]

\* a call of calc_utility as the caller sees it: arguments, Parameters read,
\* locals at the return statement and the value returned
Frame(v, p, c) ==
    [args |-> c, par |-> p,
     locals |-> calc_utility_locals(p, c[1], c[2], c[3], c[4]),
     value |-> calc_utility(v, p, c[1], c[2], c[3], c[4])]

\* a faulty calc_utility: the hours at home are kept in the solution record
CalcUtility_Stores ==
    /\ pc = "idle" /\ ops < MaxOps
    /\ \E c \in Choices :
          LET f(v) == Append(frames[v], Frame(v, par[v], c))
              r(v) == Result("calc_utility", frames'[v][Len(frames'[v])].value)
              ns(v) == [sol[v] EXCEPT !.HM_vec[1] = c[2], !.HF_vec[1] = c[4]]
          IN  /\ frames' = OnObjs(f, frames)
              /\ ret' = OnObjs(r, ret)
              /\ sol' = OnObjs(ns, sol)
    /\ ops' = ops + 1
    /\ UNCHANGED <<objs, par, pc, it, discrete, res, memo, xcur, trials, fresh>>

CalcUtility ==
    /\ pc = "idle" /\ ops < MaxOps
    /\ \E c \in Choices :
          LET f(v) == Append(frames[v], Frame(v, par[v], c))
              r(v) == Result("calc_utility", frames'[v][Len(frames'[v])].value)
          IN  /\ frames' = OnObjs(f, frames)
              /\ ret' = OnObjs(r, ret)
    /\ ops' = ops + 1
    /\ UNCHANGED <<objs, par, sol, pc, it, discrete, res, memo, xcur, trials, fresh>>

SolveDiscrete ==
    /\ pc = "idle" /\ ops < MaxOps
    /\ LET r(v) == Result("solve_discrete", solve_discrete(v, par[v]))
       IN  ret' = OnObjs(r, ret)
    /\ ops' = ops + 1
    /\ UNCHANGED <<objs, par, sol, pc, it, discrete, res, memo, frames, xcur, trials, fresh>>

SolveCont ==
    /\ pc = "idle" /\ ops < MaxOps
    /\ \E m \in Extensions(memo, {Request(v, par[v]) : v \in objs}) :
          /\ memo' = m
          /\ LET r(v) == Result("solve_cont", solve_cont(v, par[v], m))
             IN  ret' = OnObjs(r, ret)
    /\ ops' = ops + 1
    /\ UNCHANGED <<objs, par, sol, pc, it, discrete, res, frames, xcur, trials, fresh>>

\* solve_wF_vec(discrete=d) is called
SweepStart ==
    /\ pc = "idle" /\ ops < MaxOps
    /\ \E d \in BOOLEAN : discrete' = d
    /\ pc' = "sweep"
    /\ it' = 0
    /\ fresh' = {}
    /\ ops' = ops + 1
    /\ UNCHANGED <<objs, par, sol, res, memo, ret, frames, xcur, trials>>


\* a faulty wage: every iteration takes the first element of wF_vec
SetWage_First(p, i) == [p EXCEPT !.wF = p.wF_vec[1]]

\* par.wF = par.wF_vec[it] (index i = it + 1)
SetWage(p, i) == [p EXCEPT !.wF = p.wF_vec[i]]

\* a faulty store: the entries are written from the far end of the vectors
Record_Reversed(s, i, r) ==
    LET k == Len(s.LM_vec) + 1 - i
    IN  [s EXCEPT !.LM_vec[k] = r[1], !.HM_vec[k] = r[2],
                  !.LF_vec[k] = r[3], !.HF_vec[k] = r[4]]

\* sol.LM_vec[it] = res[0]; sol.HM_vec[it] = res[1]; ...
Record(s, i, r) ==
    [s EXCEPT !.LM_vec[i] = r[1], !.HM_vec[i] = r[2],
              !.LF_vec[i] = r[3], !.HF_vec[i] = r[4]]

\* a faulty loop body: the discrete branch stores its Choice as well
StoreResult_Both(d, s, i, r) ==
    IF d THEN [s EXCEPT !.LM_vec[i] = r.val.LM, !.HM_vec[i] = r.val.HM,
                        !.LF_vec[i] = r.val.LF, !.HF_vec[i] = r.val.HF]
    ELSE [s EXCEPT !.LM_vec[i] = r.val[1], !.HM_vec[i] = r.val[2],
                   !.LF_vec[i] = r.val[3], !.HF_vec[i] = r.val[4]]

\* the body of the loop after res is bound: only the else branch stores it
StoreResult(d, s, i, r) == IF d THEN s ELSE Record(s, i, r.val)

\* where solve_wF_vec returns to: its caller, or est
AfterSweep(p) == IF p = "sweep" THEN "idle" ELSE "est_reg"

\* one iteration of the loop of solve_wF_vec; the last one returns
SweepStep ==
    /\ pc \in {"sweep", "est_sweep"}
    /\ it < NVec
    /\ \E m \in (IF discrete THEN {memo}
                 ELSE Extensions(memo, {Request(v, SetWage(par[v], it + 1)) :
                                           v \in objs})) :
          LET i == it + 1
              np(v) == SetWage(par[v], i)
              r(v) == IF discrete
                      THEN Result("solve_discrete", solve_discrete(v, np(v)))
                      ELSE Result("solve_cont", solve_cont(v, np(v), m))
              ns(v) == StoreResult(discrete, sol[v], i, r(v))
          IN  /\ par' = OnObjs(np, par)
              /\ memo' = m
              /\ res' = OnObjs(r, res)
              /\ sol' = OnObjs(ns, sol)
              /\ fresh' = IF discrete THEN fresh ELSE fresh \cup {i}
              /\ it' = i
              /\ pc' = IF i = NVec THEN AfterSweep(pc) ELSE pc
              /\ ret' = IF i = NVec /\ pc = "sweep"
                        THEN OnObjs(LAMBDA v : Result("solve_wF_vec", 0), ret)
                        ELSE ret
    /\ UNCHANGED <<objs, discrete, frames, xcur, trials, ops>>

\* sol.beta0,sol.beta1 = np.linalg.lstsq(A,y,rcond=None)[0]
Fit(p, s) ==
    LET b == run_regression(p, s) IN [s EXCEPT !.beta0 = b[1], !.beta1 = b[2]]

RunRegression ==
    /\ pc = "idle" /\ ops < MaxOps
    /\ LET ns(v) == Fit(par[v], sol[v]) IN sol' = OnObjs(ns, sol)
    /\ ret' = OnObjs(LAMBDA v : Result("run_regression", 0), ret)
    /\ ops' = ops + 1
    /\ UNCHANGED <<objs, par, pc, it, discrete, res, memo, frames, xcur, trials, fresh>>

\* estimate is called: optimize.minimize(obj, x0, method='Nelder-Mead', bounds).
\* The caller of the model calibrates a newly set up object, and makes no
\* other call in that run.
EstimateStart ==
    /\ pc = "idle" /\ ops = 0
    /\ pc' = "nm"
    /\ trials' = <<>>
    /\ ops' = MaxOps
    /\ UNCHANGED <<objs, par, sol, it, discrete, res, memo, ret, frames, xcur, fresh>>

\* a faulty est: the regression runs on the entries as they are, without a sweep
EstTrial_NoSweep ==
    /\ pc = "nm"
    /\ Len(trials) < MaxTrials
    /\ \E v \in objs : \E x \in TrialPoints(v) :
          /\ trials = <<>> => x = x0(v)
          /\ xcur' = x
          /\ par' = [par EXCEPT ![v] = SetTrial(v, par[v], x)]
    /\ pc' = "est_reg"
    /\ UNCHANGED <<objs, sol, it, discrete, fresh, res, memo, ret, frames, trials, ops>>

\* Nelder-Mead calls est(x): est writes x into par and calls solve_wF_vec()
EstTrial ==
    /\ pc = "nm"
    /\ Len(trials) < MaxTrials
    /\ \E v \in objs : \E x \in TrialPoints(v) :
          /\ trials = <<>> => x = x0(v)
          /\ xcur' = x
          /\ par' = [par EXCEPT ![v] = SetTrial(v, par[v], x)]
    /\ pc' = "est_sweep"
    /\ it' = 0
    /\ discrete' = FALSE
    /\ fresh' = {}
    /\ UNCHANGED <<objs, sol, res, memo, ret, frames, trials, ops>>

\* est: self.run_regression()
EstRegression ==
    /\ pc = "est_reg"
    /\ LET ns(v) == Fit(par[v], sol[v]) IN sol' = OnObjs(ns, sol)
    /\ pc' = "est_obj"
    /\ UNCHANGED <<objs, par, it, discrete, res, memo, ret, frames, xcur, trials, fresh, ops>>

\* est: objective = ...; return objective
EstObjective ==
    /\ pc = "est_obj"
    /\ \E v \in objs :
          trials' = Append(trials, [x |-> xcur, f |-> Objective_est(par[v], sol[v])])
    /\ pc' = "nm"
    /\ UNCHANGED <<objs, par, sol, it, discrete, res, memo, ret, frames, xcur, fresh, ops>>

\* a < b on floats: false when either is not a number
Less(a, b) == ~a.nan /\ ~b.nan /\ a.val < b.val

\* Nelder-Mead has evaluated its initial simplex: x0 and one vertex per coordinate
SimplexDone(v, t) == Len(t) >= Len(x0(v)) + 1

\* a faulty estimate: the vector returned is written back into Parameters
EstimateReturn_WritesBack ==
    /\ pc = "nm"
    /\ \A v \in objs : SimplexDone(v, trials)
    /\ \E k \in 1..Len(trials) :
          /\ \A j \in 1..Len(trials) : ~Less(trials[j].f, trials[k].f)
          /\ ret' = OnObjs(LAMBDA v : Result("estimate", trials[k].x), ret)
          /\ par' = OnObjs(LAMBDA v : SetTrial(v, par[v], trials[k].x), par)
    /\ pc' = "idle"
    /\ UNCHANGED <<objs, sol, it, discrete, res, memo, frames, xcur, trials, fresh, ops>>

\* Nelder-Mead stops: result.x is a trial vector with the least objective
EstimateReturn ==
    /\ pc = "nm"
    /\ \A v \in objs : SimplexDone(v, trials)
    /\ \E k \in 1..Len(trials) :
          /\ \A j \in 1..Len(trials) : ~Less(trials[j].f, trials[k].f)
          /\ ret' = OnObjs(LAMBDA v : Result("estimate", trials[k].x), ret)
    /\ pc' = "idle"
    /\ UNCHANGED <<objs, par, sol, it, discrete, res, memo, frames, xcur, trials, fresh, ops>>

Next ==
    \/ CalcUtility
    \/ SolveDiscrete
    \/ SolveCont
    \/ SweepStart
    \/ SweepStep
    \/ RunRegression
    \/ EstimateStart
    \/ EstTrial
    \/ EstRegression
    \/ EstObjective
    \/ EstimateReturn

Spec == Init /\ [][Next]_vars

\* the operations both classes share, on one object of each class in step
NextPair ==
    \/ CalcUtility
    \/ SolveDiscrete
    \/ SolveCont
    \/ SweepStart
    \/ SweepStep
    \/ RunRegression

SpecPair == InitPair /\ [][NextPair]_vars

(***************************************************************************)
(* Properties                                                              *)
(***************************************************************************)
DayTicks == DayHours * TicksPerHour

SweepPcs == {"sweep", "est_sweep"}

\* solve_wF_vec has run to its end and no later call has entered it
SweepDone == it = NVec /\ pc \notin SweepPcs

\* entry i of SolutionVectors
Entry(s, i) == <<s.LM_vec[i], s.HM_vec[i], s.LF_vec[i], s.HF_vec[i]>>

\* what solve_cont returns for wage i of wF_vec under p
ContAt(v, p, i) == solve_cont(v, SetWage(p, i), memo)

\* the fields of Parameters the calibration of class v searches
Calibrated(v, p) == IF v = "A" THEN <<p.alpha, p.sigma>> ELSE <<p.sigma>>

\* Parameters without wF
Others(p) == [f \in DOMAIN p \ {"wF"} |-> p[f]]

\* the fields of Parameters both classes have
Shared(p) == [f \in DOMAIN ParInit("A") |-> p[f]]

Feasible(c) == c.LM + c.HM <= DayTicks /\ c.LF + c.HF <= DayTicks

\* C1: solve_discrete of either class never returns a Choice with LM+HM > 24
\* or LF+HF > 24, whether the caller calls it or a discrete sweep does.
C1_DiscreteFeasible ==
    \A v \in objs :
        /\ ret[v].op = "solve_discrete" => Feasible(ret[v].val)
        /\ res[v].op = "solve_discrete" => Feasible(res[v].val)

\* solve_discrete has returned a Choice that uses up both time budgets, for
\* a household that would work longer
C1_Witness ==
    \E v \in objs :
        /\ ret[v].op = "solve_discrete"
        /\ par[v].nu = 0
        /\ ret[v].val.LM + ret[v].val.HM = DayTicks
        /\ ret[v].val.LF + ret[v].val.HF = DayTicks

\* C2: after a continuous solve_wF_vec has completed, entry i of the four
\* vectors is the result of solve_cont with par.wF = wF_vec[i], for every i,
\* and the vectors have the length of wF_vec.
C2_SweepEntries ==
    (SweepDone /\ ~discrete) =>
        \A v \in objs :
            /\ Len(sol[v].LM_vec) = Len(par[v].wF_vec)
            /\ Len(sol[v].HM_vec) = Len(par[v].wF_vec)
            /\ Len(sol[v].LF_vec) = Len(par[v].wF_vec)
            /\ Len(sol[v].HF_vec) = Len(par[v].wF_vec)
            /\ \A i \in 1..Len(par[v].wF_vec) :
                  Entry(sol[v], i) = ContAt(v, par[v], i)

\* a continuous sweep has completed with different results at the first and
\* the last wage
C2_Witness ==
    /\ SweepDone /\ ~discrete /\ pc = "idle"
    /\ \E v \in objs : Entry(sol[v], 1) # Entry(sol[v], NVec)

\* C3: no step of solve_wF_vec(discrete=True) changes SolutionVectors or the
\* RegressionResult.
C3_DiscreteSweepFrame ==
    [][(discrete' /\ (pc \in SweepPcs \/ pc' \in SweepPcs)) => sol' = sol]_vars

\* a discrete sweep has completed on an object whose SolutionVectors an
\* earlier continuous sweep had filled
C3_Witness ==
    /\ SweepDone /\ discrete /\ pc = "idle"
    /\ \E v \in objs : sol[v].HM_vec[1] > 0 /\ res[v].op = "solve_discrete"

\* C4: after solve_wF_vec returns, in either mode, par.wF is the last
\* element of wF_vec.
C4_WageAfterSweep ==
    SweepDone => \A v \in objs : par[v].wF = par[v].wF_vec[Len(par[v].wF_vec)]

\* a sweep has returned and wF is not what it was before
C4_Witness ==
    /\ SweepDone /\ pc = "idle"
    /\ \E v \in objs : par[v].wF # ParInit(v).wF

\* C5: after estimate returns, the calibrated fields of Parameters are the
\* last trial vector passed to est, SolutionVectors and (beta0, beta1) are
\* those of that trial, whatever vector estimate returned.
C5_LastTrialRemains ==
    \A v \in objs :
        ret[v].op = "estimate" =>
            /\ Calibrated(v, par[v]) = trials[Len(trials)].x
            /\ \A i \in 1..Len(par[v].wF_vec) :
                  Entry(sol[v], i) = ContAt(v, par[v], i)
            /\ <<sol[v].beta0, sol[v].beta1>> = run_regression(par[v], sol[v])
            /\ Objective_est(par[v], sol[v]) = trials[Len(trials)].f

\* estimate has returned a vector that is not the last trial
C5_Witness ==
    \E v \in objs :
        ret[v].op = "estimate" /\ ret[v].val # trials[Len(trials)].x

\* two calls of calc_utility with the same arguments under the same
\* Parameters returned the same value
C6_SameOutput ==
    \A v \in objs : \A i, j \in DOMAIN frames[v] :
        (frames[v][i].args = frames[v][j].args /\ frames[v][i].par = frames[v][j].par)
            => frames[v][i].value = frames[v][j].value

SameState ==
    /\ Shared(par["A"]) = Shared(par["B"])
    /\ sol["A"] = sol["B"]
    /\ res["A"] = res["B"]
    /\ ret["A"] = ret["B"]
    /\ Len(frames["A"]) = Len(frames["B"])
    /\ \A i \in DOMAIN frames["A"] :
          /\ frames["A"][i].locals = frames["B"][i].locals
          /\ frames["A"][i].value = frames["B"][i].value

\* the calls to optimize.minimize that the object of class v has made
CallsOf(v) == {k \in DOMAIN memo : k.tol = Tol(v)}

\* C7 as stated: with eta = nu the two classes call the solver with the same
\* settings and stay in equal states under the operations they share.
C7_SameSettingsAndState ==
    /\ CallsOf("A") = CallsOf("B")
    /\ SameState

\* the calls of the two classes to optimize.minimize differ in tol only
SameCallButTol ==
    {[k EXCEPT !.tol = Tol("B")] : k \in CallsOf("A")} = CallsOf("B")

\* SLSQP has returned the same point with and without tol, wherever called with both
SolverAgrees ==
    \A k \in DOMAIN memo :
        LET k2 == [k EXCEPT !.tol = Tol("B")]
        IN  k2 \in DOMAIN memo => memo[k2] = memo[k]

\* C7: with eta = nu the calls of the two classes to the solver differ in
\* tol only, Parameters stay equal, and the states stay equal as long as the
\* solver returns the same point with and without tol.
C7_EqualButTolerance ==
    /\ SameCallButTol
    /\ Shared(par["A"]) = Shared(par["B"])
    /\ SolverAgrees => SameState

\* both objects have swept continuously, the solver agreeing, and computed
\* a utility
C7_Witness ==
    /\ SolverAgrees /\ SweepDone /\ ~discrete
    /\ sol["A"].HM_vec[NVec] > 0
    /\ ret["B"].op = "calc_utility"

\* C8: solve_discrete, solve_cont and run_regression change no field of
\* Parameters; solve_wF_vec changes wF only; alpha and sigma change only when
\* est writes a trial, and alpha of class B never.
C8_ParametersFrame ==
    [][/\ (pc = "idle" /\ pc' = "idle"
           /\ \E v \in objs :
                 ret'[v].op \in {"solve_discrete", "solve_cont", "run_regression"})
             => par' = par
       /\ (pc \in SweepPcs \/ (pc = "idle" /\ pc' = "sweep")) =>
             \A v \in Inst : Others(par'[v]) = Others(par[v])
       /\ \A v \in Inst :
             Calibrated(v, par'[v]) # Calibrated(v, par[v]) =>
                 (pc = "nm" /\ pc' = "est_sweep"
                  /\ par'[v] = SetTrial(v, par[v], xcur')
                  /\ par'[v].wF = par[v].wF)
       /\ par'["B"].alpha = par["B"].alpha
       /\ \A v \in Inst :
             (pc \notin SweepPcs /\ pc # "nm") => par'[v] = par[v]]_vars

\* a trial has changed sigma and its sweep has changed wF
C8_Witness ==
    \E v \in objs :
        /\ pc = "nm" /\ Len(trials) >= 1
        /\ par[v].sigma # ParInit(v).sigma
        /\ par[v].wF # ParInit(v).wF

\* C9 as stated: the disutility term is computed from TM = LM+HM and
\* TF = LF+HF with HM and HF as the caller passed them.
C9_CallerHours ==
    \A v \in objs : \A i \in DOMAIN frames[v] :
        /\ frames[v][i].locals.TM = frames[v][i].args[1] + frames[v][i].args[2]
        /\ frames[v][i].locals.TF = frames[v][i].args[3] + frames[v][i].args[4]

\* est is about to run the regression: every entry was written by the
\* sweep of this trial, under the parameters of this trial
TrialData ==
    pc = "est_reg" =>
        /\ fresh = 1..NVec
        /\ \A v \in objs :
              /\ Calibrated(v, par[v]) = xcur
              /\ \A i \in 1..NVec : Entry(sol[v], i) = ContAt(v, par[v], i)

\* the steps of est in their order
TrialOrder ==
    /\ (pc = "nm" /\ pc' # "idle") =>
          (pc' = "est_sweep" /\ fresh' = {} /\ it' = 0 /\ ~discrete'
           /\ \A v \in objs : Calibrated(v, par'[v]) = xcur')
    /\ pc = "est_sweep" =>
          (pc' = (IF it' = NVec THEN "est_reg" ELSE "est_sweep")
           /\ fresh' = fresh \cup {it'} /\ xcur' = xcur
           /\ \A v \in objs : Calibrated(v, par'[v]) = xcur)
    /\ pc = "est_reg" =>
          (pc' = "est_obj" /\ par' = par
           /\ \A v \in objs : sol'[v] = Fit(par[v], sol[v]))
    /\ pc = "est_obj" =>
          (pc' = "nm" /\ par' = par /\ sol' = sol
           /\ Len(trials') = Len(trials) + 1
           /\ \A v \in objs :
                 trials'[Len(trials')] =
                     [x |-> xcur, f |-> Objective_est(par[v], sol[v])])

\* C10: in every call of est, the trial parameters are written, then the
\* continuous sweep overwrites every entry of SolutionVectors, then the
\* regression runs, then the objective is computed from its beta0 and beta1;
\* the regression reads only entries of this trial.
C10_TrialOrder == []TrialData /\ [][TrialOrder]_vars

\* a second trial, with another vector than the first, is about to run the
\* regression
C10_Witness ==
    /\ pc = "est_reg"
    /\ Len(trials) >= 1
    /\ xcur # trials[1].x

====
